---- MODULE Spec2Model ----
(***************************************************************************)
(* climate.c: single-pass aggregation of tab-delimited climate records     *)
(* into one climate_info accumulator per state code.                       *)
(*                                                                         *)
(* Representation.                                                         *)
(*  - A line is the sequence of its tab-separated fields.  A field is a    *)
(*    record [num, val, txt]: num says whether the text parses as a number *)
(*    (then val is its value), txt is the text of a non-numeric field.     *)
(*  - Numbers are fixed point: temperatures read from the file are in      *)
(*    hundredths of a kelvin, Fahrenheit temperatures in thousandths of a  *)
(*    degree (so kelvin * 1.8 - 459.67 is exact), timestamps in            *)
(*    milliseconds as read and in seconds as stored.                      *)
(*  - temperature_val and the sums are long double, max_temperature and    *)
(*    min_temperature are double: storing an extremum narrows it.  The     *)
(*    narrowing moves a value by less than the distance between two        *)
(*    readings; it is modelled as one unit up, one unit down or none, as   *)
(*    the arithmetic does for that reading where long double is the        *)
(*    80-bit x87 format (gcc, x86-64).  Rounding inside the long double    *)
(*    sums is not modelled.                                                *)
(*  - atof returns a NaN for the text "nan"; NaN is a value of its own     *)
(*    that every sum absorbs and every comparison rejects.                 *)
(*  - malloc'ed accumulators live in heap; a pointer is an index of heap,  *)
(*    NULL is the null pointer, WILD an indeterminate pointer that refers  *)
(*    to no accumulator.                                                   *)
(*  - A date field that was never assigned is <<>>, an assigned one <<t>>. *)
(***************************************************************************)
EXTENDS Integers, Sequences, FiniteSets, TLC

VARIABLES
    files,      \* argv[1..]: each [ok, lines]; ok = FALSE when fopen fails
    fi,         \* main's loop index i (1-based position in files)
    li,         \* position of the next line fgets returns in files[fi]
    pc,         \* "main", "read", "done", "usage", "crashed"
    heap,       \* every accumulator allocated so far
    states,     \* main's array: slot 0..NUM_STATES-1 -> pointer
    new_state,  \* analyze_file's local pointer
    errors,     \* indexes of the files reported as not existing
    report,     \* what print_report printed, one row per occupied slot
    seen,       \* history: the lines whose loop iteration ran to its end
    run,        \* history: 1 in the first invocation, 2 in a second one
    first,      \* history: the table the first invocation ended with
    rel,        \* history: how the second invocation's input was derived
    assigned    \* history: new_state was assigned in this analyze_file call

vars == <<files, fi, li, pc, heap, states, new_state, errors, report, seen,
          run, first, rel, assigned>>

----------------------------------------------------------------------------
(* Program constants *)

NUM_STATES == 50

NULL == 0

WILD == -1

EMPTY_SENTINEL == -50

(* Bounds of the inputs *)

MaxFiles == 2

MaxLines == 3

----------------------------------------------------------------------------
(* Fields and lines *)

Txt(s) == [num |-> FALSE, val |-> 0, txt |-> s]

Num(v) == [num |-> TRUE, val |-> v, txt |-> ""]

\* A field whose text s starts with the number v and goes on with
\* characters no number has ("12abc").
Pre(v, s) == [num |-> FALSE, val |-> v, txt |-> s]

\* The NaN of the floating-point types (no reading takes this value).
NaN == -1000000000

IsToken(f) == f.num \/ f.txt # ""

\* strtok(line, "\t") and the strtok(NULL, "\t") calls after it: the
\* non-empty fields in order (strtok skips runs of delimiters).
strtok(line) == SelectSeq(line, IsToken)

\* The i-th token, or a token that converts to 0 where strtok returned NULL
\* and the conversion survived it.
Token(tk, i) == IF i <= Len(tk) THEN tk[i] ELSE Txt("")

\* atol converts the longest prefix that is an integer: val for a number
\* and for a Pre field, 0 for a text with no such prefix.
atol(tok) == IF tok.num THEN tok.val ELSE IF tok.txt = "nan" THEN 0 ELSE tok.val

\* atof (strtod) converts the longest prefix it accepts: val for a number
\* and for a Pre field, NaN for "nan", 0 for a text with no such prefix.
atof(tok) == IF tok.num THEN tok.val ELSE IF tok.txt = "nan" THEN NaN ELSE tok.val

\* Floating-point addition and comparisons.
Plus(a, b) == IF a = NaN \/ b = NaN THEN NaN ELSE a + b

Greater(a, b) == a # NaN /\ b # NaN /\ a > b

Less(a, b) == a # NaN /\ b # NaN /\ a < b

Quotient(a, n) == IF a = NaN THEN NaN ELSE a \div n

\* C's integer division truncates toward zero.
CDiv(a, b) == IF a >= 0 THEN a \div b ELSE -((-a) \div b)

TimestampSeconds(ms) == CDiv(ms, 1000)

\* (temperature_val * 1.8) - 459.67, hundredths of a kelvin to thousandths
\* of a degree Fahrenheit.
Fahrenheit(k) == IF k = NaN THEN NaN ELSE k * 18 - 459670

\* The long double t converted to double, as in max_temperature =
\* temperature_val: 283.15 K (50 F) rounds up, 273.15 K (32 F) rounds down,
\* 0 K (-459.67 F) is kept.
Narrow(t) ==
    IF t = Fahrenheit(28315) THEN t + 1
    ELSE IF t = Fahrenheit(27315) THEN t - 1
    ELSE t

----------------------------------------------------------------------------
(* The accumulator table *)

\* NewState with both extrema initialised to 0.
NewState_ZeroExtrema(code) ==
    [code            |-> code,
     num_records     |-> 0,
     sum_temperature |-> 0,
     sum_humidity    |-> 0,
     max_temperature |-> 0,
     max_temp_date   |-> <<>>,
     min_temperature |-> 0,
     min_temp_date   |-> <<>>,
     num_lightning   |-> 0,
     num_snowcover   |-> 0,
     sum_cloudcover  |-> 0]

NewState(code) ==
    [code            |-> code,
     num_records     |-> 0,
     sum_temperature |-> 0,
     sum_humidity    |-> 0,
     max_temperature |-> -1000 * 1000,
     max_temp_date   |-> <<>>,
     min_temperature |-> 1000 * 1000,
     min_temp_date   |-> <<>>,
     num_lightning   |-> 0,
     num_snowcover   |-> 0,
     sum_cloudcover  |-> 0]

Slots == 0 .. (NUM_STATES - 1)

EmptyTable == [i \in Slots |-> NULL]

\* Where findStateIndex's loop stops when no code matches: the first NULL
\* slot, or NUM_STATES when the array has none (the loop then reads
\* states[NUM_STATES], past the array).
FirstNull(st) ==
    IF \E i \in Slots : st[i] = NULL
    THEN CHOOSE i \in Slots : st[i] = NULL /\ \A j \in 0 .. (i - 1) : st[j] # NULL
    ELSE NUM_STATES

Matches(st, hp, code) ==
    {i \in 0 .. (FirstNull(st) - 1) : hp[st[i]].code = code}

\* The scan reads past the end of the array.
Overrun(st, hp, code) == Matches(st, hp, code) = {} /\ FirstNull(st) = NUM_STATES

\* findStateIndex, the word past the array read as NULL when the scan gets
\* there.
findStateIndex(st, hp, code) ==
    LET m == Matches(st, hp, code)
        i == FirstNull(st)
    IN  IF m # {} THEN CHOOSE k \in m : \A j \in m : k <= j
        ELSE IF i = 0 THEN EMPTY_SENTINEL
        ELSE -i

----------------------------------------------------------------------------
(* One iteration of analyze_file's loop *)

\* The updates made through new_state, the first n of them: humidity, snow,
\* cloud cover, lightning, temperature (sum and extrema).
Accumulate(acc, tk, n) ==
    LET ts == TimestampSeconds(atol(Token(tk, 2)))
        t  == Fahrenheit(atof(Token(tk, 9)))
        a1 == IF n >= 1
              THEN [acc EXCEPT !.sum_humidity = Plus(@, atof(Token(tk, 4)))] ELSE acc
        a2 == IF n >= 2
              THEN [a1 EXCEPT !.num_snowcover = @ + atof(Token(tk, 5))] ELSE a1
        a3 == IF n >= 3
              THEN [a2 EXCEPT !.sum_cloudcover = Plus(@, atof(Token(tk, 6)))] ELSE a2
        a4 == IF n >= 4
              THEN [a3 EXCEPT !.num_lightning = @ + atof(Token(tk, 7))] ELSE a3
        a5 == IF n >= 5
              THEN [a4 EXCEPT !.sum_temperature = Plus(@, t)] ELSE a4
        a6 == IF n >= 5 /\ Greater(t, a5.max_temperature)
              THEN [a5 EXCEPT !.max_temperature = Narrow(t), !.max_temp_date = <<ts>>]
              ELSE a5
        a7 == IF n >= 5 /\ Less(t, a6.min_temperature)
              THEN [a6 EXCEPT !.min_temperature = Narrow(t), !.min_temp_date = <<ts>>]
              ELSE a6
    IN  a7

\* How each undefined operation of the iteration turns out:
\*   null: atol/atof of the NULL strtok returns for a missing field either
\*         faults ("crash") or yields 0 ("zero");
\*   wild: a write through an indeterminate new_state either faults
\*         ("crash") or lands outside every accumulator ("lost");
\*   oob:  the read of states[NUM_STATES] either yields NULL ("null") or a
\*         word whose use as a pointer faults ("crash").
\* An operation the iteration does not perform has one (unused) outcome.
Outcomes(hp, st, ns, line) ==
    [null : IF Len(strtok(line)) < 9 THEN {"crash", "zero"} ELSE {"zero"},
     wild : IF ns = WILD THEN {"crash", "lost"} ELSE {"lost"},
     oob  : IF Len(strtok(line)) > 0 /\ Overrun(st, hp, strtok(line)[1].txt)
            THEN {"crash", "null"} ELSE {"null"}]

\* The number of updates through new_state made before a conversion of a
\* missing field faults.
Applied(nt, ub) ==
    IF nt >= 9 \/ ub.null = "zero" THEN 5
    ELSE IF nt >= 7 THEN 4
    ELSE IF nt >= 4 THEN nt - 3
    ELSE 0

\* Lines 167-281 on one line: the heap, table and new_state after it, and
\* whether the process faulted in it.
LoopBody(hp, st, ns, line, ub) ==
    LET tk     == strtok(line)
        nt     == Len(tk)
        code   == tk[1].txt
        idx    == findStateIndex(st, hp, code)
        create == idx < 0
        p      == Len(hp) + 1
        slot   == IF ~create THEN idx
                  ELSE IF idx = EMPTY_SENTINEL THEN 0 ELSE idx * (-1)
        hp1    == IF create THEN Append(hp, NewState(code)) ELSE hp
        st1    == IF create THEN [st EXCEPT ![slot] = p] ELSE st
        ns1    == IF create THEN p ELSE ns
        hp2    == [hp1 EXCEPT ![st1[slot]].num_records = @ + 1]
        nullfault == nt < 9 /\ ub.null = "crash"
    IN  IF nt = 0 \/ (Overrun(st, hp, code) /\ ub.oob = "crash")
        THEN [heap |-> hp, states |-> st, new_state |-> ns, crashed |-> TRUE]
        ELSE IF nt < 4 /\ nullfault
        THEN [heap |-> hp2, states |-> st1, new_state |-> ns1, crashed |-> TRUE]
        ELSE IF ns1 = WILD
        THEN [heap |-> hp2, states |-> st1, new_state |-> ns1,
              crashed |-> (ub.wild = "crash" \/ nullfault)]
        ELSE [heap |-> [hp2 EXCEPT ![ns1] = Accumulate(@, tk, Applied(nt, ub))],
              states |-> st1, new_state |-> ns1, crashed |-> nullfault]

----------------------------------------------------------------------------
(* print_report *)

Occupied(st) ==
    SelectSeq([k \in 1 .. NUM_STATES |-> st[k - 1]], LAMBDA q : q # NULL)

Row(acc) ==
    [code            |-> acc.code,
     num_records     |-> acc.num_records,
     avg_humidity    |-> Quotient(acc.sum_humidity, acc.num_records),
     avg_temperature |-> Quotient(acc.sum_temperature, acc.num_records),
     max_temperature |-> acc.max_temperature,
     max_temp_date   |-> acc.max_temp_date,
     min_temperature |-> acc.min_temperature,
     min_temp_date   |-> acc.min_temp_date,
     num_lightning   |-> acc.num_lightning,
     num_snowcover   |-> acc.num_snowcover,
     avg_cloudcover  |-> Quotient(acc.sum_cloudcover, acc.num_records)]

print_report(st, hp) ==
    LET occ == Occupied(st) IN [k \in 1 .. Len(occ) |-> Row(hp[occ[k]])]

----------------------------------------------------------------------------
(* Inputs *)

Codes == {"CA", "TN"}

Readings ==
    {[humidity |-> 93, snow |-> 0, cloud |-> 100, lightning |-> 0,
      pressure |-> 95644, kelvin |-> 28315],
     [humidity |-> 4, snow |-> 1, cloud |-> 22, lightning |-> 1,
      pressure |-> 99226, kelvin |-> 27315]}

Line(code, ms, r) ==
    <<Txt(code), Num(ms), Txt("9prcjqk3yc80"), Num(r.humidity), Num(r.snow),
      Num(r.cloud), Num(r.lightning), Num(r.pressure), Num(r.kelvin)>>

\* The j-th line of an input is stamped j seconds and 500 ms.
Stamp(j) == j * 1000 + 500

\* A line cut after its fifth field, and a line holding only its newline.
Shapes ==
    [kind : {"full"}, code : Codes, r : Readings]
    \cup {[kind |-> "short", code |-> "CA",
           r |-> CHOOSE r \in Readings : r.humidity = 93],
          [kind |-> "empty", code |-> "\n",
           r |-> CHOOSE r \in Readings : r.humidity = 93]}

\* Lines of 9 fields with unusual ones: "junk" has texts that start no
\* number where humidity and temperature belong, "prefix" a humidity that
\* starts with a number, "nan" the temperature nan, "hot" a temperature of
\* 900 K.
OddShapes ==
    [kind : {"junk", "prefix", "nan", "hot"}, code : {"CA"},
     r : {x \in Readings : x.humidity = 93}]

Shaped(s, j) ==
    IF s.kind = "full" THEN Line(s.code, Stamp(j), s.r)
    ELSE IF s.kind = "short" THEN SubSeq(Line(s.code, Stamp(j), s.r), 1, 5)
    ELSE IF s.kind = "junk"
    THEN [Line(s.code, Stamp(j), s.r) EXCEPT ![4] = Txt("n/a"), ![9] = Txt("abc")]
    ELSE IF s.kind = "prefix"
    THEN [Line(s.code, Stamp(j), s.r) EXCEPT ![4] = Pre(12, "12abc")]
    ELSE IF s.kind = "nan"
    THEN [Line(s.code, Stamp(j), s.r) EXCEPT ![9] = Txt("nan")]
    ELSE IF s.kind = "hot"
    THEN [Line(s.code, Stamp(j), s.r) EXCEPT ![9] = Num(90000)]
    ELSE <<Txt(s.code)>>

RECURSIVE SumTo(_, _)
SumTo(ly, k) == IF k = 0 THEN 0 ELSE SumTo(ly, k - 1) + (IF ly[k] < 0 THEN 0 ELSE ly[k])

Unopenable == [ok |-> FALSE, lines |-> <<>>]

\* lines laid out over files: ly[k] is the number of lines of file k, or -1
\* for a path that cannot be opened.
Layout(lines, ly) ==
    [k \in 1 .. Len(ly) |->
        IF ly[k] < 0 THEN Unopenable
        ELSE [ok |-> TRUE,
              lines |-> SubSeq(lines, SumTo(ly, k - 1) + 1, SumTo(ly, k))]]

Layouts(n) ==
    UNION {{ly \in [1 .. f -> -1 .. n] : SumTo(ly, f) = n} : f \in 0 .. MaxFiles}

\* files is an input of at most MaxLines lines in at most MaxFiles paths.
SmallInput(f) ==
    \E n \in 0 .. MaxLines : \E ss \in [1 .. n -> Shapes] : \E ly \in Layouts(n) :
        f = Layout([j \in 1 .. n |-> Shaped(ss[j], j)], ly)

\* files is one file of at most MaxLines lines of 9 fields, some unusual.
OddInput(f) ==
    \E n \in 1 .. MaxLines :
        \E ss \in [1 .. n -> OddShapes \cup [kind : {"full"}, code : Codes, r : Readings]] :
            f = <<[ok |-> TRUE, lines |-> [j \in 1 .. n |-> Shaped(ss[j], j)]]>>

\* One file of n well-formed lines with n distinct two-letter codes,
\* optionally followed by a line that repeats the first code.
ManyLines(n, again) ==
    LET r == CHOOSE x \in Readings : x.humidity = 93
        distinct == [j \in 1 .. n |-> Line(ToString(9 + j), Stamp(j), r)]
    IN  IF again THEN Append(distinct, Line(ToString(10), Stamp(n + 1), r))
        ELSE distinct

ManyInputs ==
    {<<[ok |-> TRUE, lines |-> ManyLines(n, again)]>> :
        n \in NUM_STATES .. (NUM_STATES + 2), again \in BOOLEAN}

----------------------------------------------------------------------------
(* The program *)

Init ==
    /\ \/ SmallInput(files)
       \/ OddInput(files)
       \/ files \in ManyInputs
    /\ fi = 1
    /\ li = 1
    /\ pc = "main"
    /\ heap = <<>>
    /\ states = EmptyTable
    /\ new_state = WILD
    /\ errors = <<>>
    /\ report = <<>>
    /\ seen = <<>>
    /\ run = 1
    /\ first = <<>>
    /\ rel = "none"
    /\ assigned = FALSE

\* argc < 2: the usage message and EXIT_FAILURE.
Usage ==
    /\ pc = "main"
    /\ Len(files) = 0
    /\ pc' = "usage"
    /\ UNCHANGED <<files, fi, li, heap, states, new_state, errors, report, seen,
                   run, first, rel, assigned>>

\* SkipFile with return EXIT_FAILURE in place of continue.
SkipFile_ExitsOnError ==
    /\ pc = "main"
    /\ fi <= Len(files)
    /\ ~files[fi].ok
    /\ errors' = Append(errors, fi)
    /\ pc' = "usage"
    /\ UNCHANGED <<files, fi, li, heap, states, new_state, report, seen,
                   run, first, rel, assigned>>

\* fopen failed: the error message, then the next file.
SkipFile ==
    /\ pc = "main"
    /\ fi <= Len(files)
    /\ ~files[fi].ok
    /\ errors' = Append(errors, fi)
    /\ fi' = fi + 1
    /\ UNCHANGED <<files, li, pc, heap, states, new_state, report, seen,
                   run, first, rel, assigned>>

\* The values an uninitialised new_state can hold when analyze_file is
\* entered: the address of any accumulator allocated so far, or an address
\* of none.
Indeterminate(hp) == {WILD} \cup (1 .. Len(hp))

\* fopen succeeded: analyze_file is entered, its new_state uninitialised.
OpenFile ==
    /\ pc = "main"
    /\ fi <= Len(files)
    /\ files[fi].ok
    /\ pc' = "read"
    /\ li' = 1
    /\ new_state' \in Indeterminate(heap)
    /\ assigned' = FALSE
    /\ UNCHANGED <<files, fi, heap, states, errors, report, seen, run, first, rel>>

\* fgets returned a line: one iteration of the loop.
ProcessLine ==
    /\ pc = "read"
    /\ li <= Len(files[fi].lines)
    /\ \E ub \in Outcomes(heap, states, new_state, files[fi].lines[li]) :
         LET line == files[fi].lines[li]
             res  == LoopBody(heap, states, new_state, line, ub)
         IN  /\ heap' = res.heap
             /\ states' = res.states
             /\ new_state' = res.new_state
             /\ pc' = IF res.crashed THEN "crashed" ELSE "read"
             /\ seen' = IF res.crashed THEN seen ELSE Append(seen, line)
             /\ assigned' = (assigned \/ Len(res.heap) > Len(heap))
    /\ li' = li + 1
    /\ UNCHANGED <<files, fi, errors, report, run, first, rel>>

\* fgets returned NULL: analyze_file returns, fclose, the next file.
EndOfFile ==
    /\ pc = "read"
    /\ li > Len(files[fi].lines)
    /\ pc' = "main"
    /\ fi' = fi + 1
    /\ UNCHANGED <<files, li, heap, states, new_state, errors, report, seen,
                   run, first, rel, assigned>>

\* Every file was tried: print_report, return 0.
PrintReport ==
    /\ pc = "main"
    /\ Len(files) > 0
    /\ fi > Len(files)
    /\ report' = print_report(states, heap)
    /\ pc' = "done"
    /\ UNCHANGED <<files, fi, li, heap, states, new_state, errors, seen,
                   run, first, rel, assigned>>

Next ==
    \/ Usage
    \/ SkipFile
    \/ OpenFile
    \/ ProcessLine
    \/ EndOfFile
    \/ PrintReport

Spec == Init /\ [][Next]_vars

----------------------------------------------------------------------------
(* A second invocation of the program on a rearrangement of the first      *)
(* invocation's input, to compare the two final tables.                    *)

\* The accumulators of the occupied slots, in slot order.
Table(st, hp) ==
    LET occ == Occupied(st) IN [k \in 1 .. Len(occ) |-> hp[occ[k]]]

\* One file cut in two at a line boundary.
Regroupings(fs) ==
    IF Len(fs) = 1 /\ fs[1].ok /\ Len(fs[1].lines) <= MaxLines
    THEN {<<[ok |-> TRUE, lines |-> SubSeq(fs[1].lines, 1, k)],
            [ok |-> TRUE, lines |-> SubSeq(fs[1].lines, k + 1, Len(fs[1].lines))]>> :
            k \in 0 .. Len(fs[1].lines)}
    ELSE {}

Swap(s, j) == [s EXCEPT ![j] = s[j + 1], ![j + 1] = s[j]]

\* Two neighbouring lines of one file exchanged.
Reorderings(fs) ==
    UNION {{[fs EXCEPT ![f].lines = Swap(@, j)] : j \in 1 .. (Len(fs[f].lines) - 1)} :
            f \in {g \in 1 .. Len(fs) : fs[g].ok /\ Len(fs[g].lines) <= MaxLines}}

Rearranged(kind, fs) ==
    IF kind = "regroup" THEN Regroupings(fs) ELSE Reorderings(fs)

Restart ==
    /\ pc = "done"
    /\ run = 1
    /\ \E kind \in {"regroup", "reorder"} : \E fs \in Rearranged(kind, files) :
         /\ files' = fs
         /\ rel' = kind
    /\ first' = Table(states, heap)
    /\ run' = 2
    /\ fi' = 1
    /\ li' = 1
    /\ pc' = "main"
    /\ heap' = <<>>
    /\ states' = EmptyTable
    /\ new_state' = WILD
    /\ errors' = <<>>
    /\ report' = <<>>
    /\ seen' = <<>>
    /\ assigned' = FALSE

NextTwice == Next \/ Restart

SpecTwice == Init /\ [][NextTwice]_vars

----------------------------------------------------------------------------
(* Reference values of the claims, taken from the lines themselves *)

WellFormed(line) ==
    /\ Len(line) = 9
    /\ \A k \in 1 .. 9 : IsToken(line[k])
    /\ \A k \in {2, 4, 5, 6, 7, 8, 9} : line[k].num

CodeOf(line) == line[1].txt

HumidityOf(line) == line[4].val

SnowOf(line) == line[5].val

CloudOf(line) == line[6].val

LightningOf(line) == line[7].val

\* kelvin * 1.8 - 459.67 in thousandths of a degree
DegreesOf(line) == (line[9].val * 18) - 459670

SecondsOf(line) == line[2].val \div 1000

RECURSIVE Total(_)
Total(s) == IF s = <<>> THEN 0 ELSE Head(s) + Total(Tail(s))

Largest(s) == CHOOSE x \in {s[k] : k \in 1 .. Len(s)} : \A k \in 1 .. Len(s) : s[k] <= x

Smallest(s) == CHOOSE x \in {s[k] : k \in 1 .. Len(s)} : \A k \in 1 .. Len(s) : x <= s[k]

\* The well-formed lines of code c among ls, in order.
RecordsIn(ls, c) == SelectSeq(ls, LAMBDA l : WellFormed(l) /\ CodeOf(l) = c)

RecordsOf(c) == RecordsIn(seen, c)

Humidities(rs) == [k \in 1 .. Len(rs) |-> HumidityOf(rs[k])]

Clouds(rs) == [k \in 1 .. Len(rs) |-> CloudOf(rs[k])]

Degrees(rs) == [k \in 1 .. Len(rs) |-> DegreesOf(rs[k])]

OccupiedSlots == {i \in Slots : states[i] # NULL}

\* The program is between two records (not inside an iteration, not dead).
BetweenRecords == pc \in {"main", "read", "done"}

AllWellFormed(ls) == \A k \in 1 .. Len(ls) : WellFormed(ls[k])

RECURSIVE Concat(_)
Concat(fs) == IF fs = <<>> THEN <<>> ELSE Head(fs).lines \o Concat(Tail(fs))

----------------------------------------------------------------------------
(* Claims C1-C10 *)

\* C1: between records, while every line processed was well formed, each
\* accumulator of the table holds in sum_humidity, sum_cloudcover and
\* sum_temperature the sums over exactly the records of its own code.
C1_SumsPerCode ==
    (BetweenRecords /\ AllWellFormed(seen)) =>
        \A i \in OccupiedSlots :
            LET a  == heap[states[i]]
                rs == RecordsOf(a.code)
            IN  /\ a.sum_humidity = Total(Humidities(rs))
                /\ a.sum_cloudcover = Total(Clouds(rs))
                /\ a.sum_temperature = Total(Degrees(rs))

\* C2: between records, num_records of each accumulator of the table is the
\* number of well-formed lines of its code processed so far; malformed
\* lines are not counted.
C2_CountPerCode ==
    BetweenRecords =>
        \A i \in OccupiedSlots :
            heap[states[i]].num_records = Len(RecordsOf(heap[states[i]].code))

\* C3: no two occupied slots hold the same code, and every code of a
\* processed line has exactly one accumulator in the table.
C3_OnePerCode ==
    BetweenRecords =>
        /\ \A i, j \in OccupiedSlots :
              heap[states[i]].code = heap[states[j]].code => i = j
        /\ \A k \in 1 .. Len(seen) :
              Cardinality({i \in OccupiedSlots :
                              heap[states[i]].code = CodeOf(seen[k])}) = 1

\* C4: while every line processed was well formed, max_temperature of each
\* accumulator is the largest temperature among the records of its code and
\* max_temp_date the seconds of a record of that code with that
\* temperature; min_temperature and min_temp_date symmetrically.
C4_ExtremaPerCode ==
    (BetweenRecords /\ AllWellFormed(seen)) =>
        \A i \in OccupiedSlots :
            LET a  == heap[states[i]]
                rs == RecordsOf(a.code)
            IN  rs # <<>> =>
                /\ a.max_temperature = Narrow(Largest(Degrees(rs)))
                /\ \E k \in 1 .. Len(rs) :
                      /\ Narrow(DegreesOf(rs[k])) = a.max_temperature
                      /\ a.max_temp_date = <<SecondsOf(rs[k])>>
                /\ a.min_temperature = Narrow(Smallest(Degrees(rs)))
                /\ \E k \in 1 .. Len(rs) :
                      /\ Narrow(DegreesOf(rs[k])) = a.min_temperature
                      /\ a.min_temp_date = <<SecondsOf(rs[k])>>

\* The position in rs of the first record whose temperature is t.
FirstWith(rs, t) ==
    CHOOSE k \in 1 .. Len(rs) :
        DegreesOf(rs[k]) = t /\ \A j \in 1 .. (k - 1) : DegreesOf(rs[j]) # t

Tied(rs, t) == Cardinality({k \in 1 .. Len(rs) : DegreesOf(rs[k]) = t}) >= 2

\* C5: when several records of one code carry the maximum (minimum)
\* temperature of that code, the stored max_temp_date (min_temp_date) is
\* the seconds of the first of them processed.
C5_FirstWins ==
    (BetweenRecords /\ AllWellFormed(seen)) =>
        \A i \in OccupiedSlots :
            LET a  == heap[states[i]]
                rs == RecordsOf(a.code)
                hi == Largest(Degrees(rs))
                lo == Smallest(Degrees(rs))
            IN  rs # <<>> =>
                /\ Tied(rs, hi) =>
                      a.max_temp_date = <<SecondsOf(rs[FirstWith(rs, hi)])>>
                /\ Tied(rs, lo) =>
                      a.min_temp_date = <<SecondsOf(rs[FirstWith(rs, lo)])>>

\* C6: the iteration on a line with fewer than 9 fields leaves the heap and
\* the table as they were and the loop goes on to the next line.
C6_MalformedSkipped ==
    [][(/\ pc = "read"
        /\ li <= Len(files[fi].lines)
        /\ Len(files[fi].lines[li]) < 9)
       => (heap' = heap /\ states' = states /\ pc' = "read")]_vars

\* C7: a file of well-formed lines processed as two files, cut at any line
\* boundary, ends with the table the single file ended with.
C7_Regrouping ==
    (run = 2 /\ rel = "regroup" /\ pc = "done" /\ AllWellFormed(Concat(files))) =>
        Table(states, heap) = first

SumsAndCounts(a) ==
    [code |-> a.code, num_records |-> a.num_records,
     sum_humidity |-> a.sum_humidity, sum_cloudcover |-> a.sum_cloudcover,
     sum_temperature |-> a.sum_temperature, num_snowcover |-> a.num_snowcover,
     num_lightning |-> a.num_lightning]

\* C8: two orderings of the same well-formed records end with the same
\* num_records, sums and counts for every code.
C8_OrderIndependent ==
    (run = 2 /\ rel = "reorder" /\ pc = "done" /\ AllWellFormed(Concat(files))) =>
        {SumsAndCounts(heap[states[i]]) : i \in OccupiedSlots}
            = {SumsAndCounts(first[k]) : k \in 1 .. Len(first)}

\* The codes with a record in at least two of the files.
InTwoFiles(c) ==
    \E f, g \in 1 .. Len(files) :
        f # g /\ RecordsIn(files[f].lines, c) # <<>> /\ RecordsIn(files[g].lines, c) # <<>>

\* C9: when the run ends, a code with records in two files has one
\* accumulator, whose num_records, sums and extrema cover the records of
\* both files.
C9_MergedAcrossFiles ==
    (run = 1 /\ pc = "done" /\ AllWellFormed(Concat(files))) =>
        \A c \in {CodeOf(l) : l \in {seen[k] : k \in 1 .. Len(seen)}} :
            InTwoFiles(c) =>
                LET rs == RecordsIn(Concat(files), c)
                    ss == {i \in OccupiedSlots : heap[states[i]].code = c}
                IN  /\ Cardinality(ss) = 1
                    /\ \A i \in ss :
                          /\ heap[states[i]].num_records = Len(rs)
                          /\ heap[states[i]].sum_humidity = Total(Humidities(rs))
                          /\ heap[states[i]].sum_cloudcover = Total(Clouds(rs))
                          /\ heap[states[i]].sum_temperature = Total(Degrees(rs))
                          /\ heap[states[i]].max_temperature = Narrow(Largest(Degrees(rs)))
                          /\ heap[states[i]].min_temperature = Narrow(Smallest(Degrees(rs)))

\* The files that can be opened, in order.
Openable(fs) == SelectSeq(fs, LAMBDA f : f.ok)

\* C10: the step on a path that cannot be opened reports it, changes
\* neither the heap nor the table nor the lines processed, and goes on to
\* the next path; and when the report is printed the lines processed are
\* those of the openable files, in order, every unopenable path was
\* reported, and the report is the one of the table.
C10_UnopenableSkipped ==
    /\ [][(pc = "main" /\ fi <= Len(files) /\ ~files[fi].ok)
          => (/\ heap' = heap
              /\ states' = states
              /\ seen' = seen
              /\ pc' = "main"
              /\ fi' = fi + 1
              /\ errors' = Append(errors, fi))]_vars
    /\ [](pc = "done" =>
            /\ seen = Concat(Openable(files))
            /\ errors = SelectSeq([k \in 1 .. Len(files) |-> k],
                                  LAMBDA k : ~files[k].ok)
            /\ report = print_report(states, heap))

\* An unopenable path came before a file whose records were then folded
\* and reported.
C10_Witness ==
    /\ pc = "done"
    /\ \E k \in 1 .. Len(files) : \E m \in (k + 1) .. Len(files) :
          ~files[k].ok /\ files[m].ok /\ files[m].lines # <<>>
    /\ errors # <<>>
    /\ report # <<>>

----------------------------------------------------------------------------
(* Claims C11-C20 *)

\* The lines of 9 fields whose humidity is a number within [0, 100].
HumidityInRange(ls) ==
    \A k \in 1 .. Len(ls) :
        /\ Len(strtok(ls[k])) = 9
        /\ ls[k][4].num
        /\ 0 <= HumidityOf(ls[k])
        /\ HumidityOf(ls[k]) <= 100

\* C11: between records, while every record processed had a humidity within
\* [0, 100], every accumulator of the table has
\* 0 <= sum_humidity <= 100 * num_records (its average humidity is within
\* [0, 100]).
C11_HumidityAverage ==
    (BetweenRecords /\ HumidityInRange(seen)) =>
        \A i \in OccupiedSlots :
            /\ 0 <= heap[states[i]].sum_humidity
            /\ heap[states[i]].sum_humidity <= 100 * heap[states[i]].num_records

\* C12: between records, every accumulator of the table with
\* num_records >= 1 has max_temperature >= min_temperature.
C12_MaxAtLeastMin ==
    BetweenRecords =>
        \A i \in OccupiedSlots :
            heap[states[i]].num_records >= 1 =>
                heap[states[i]].max_temperature >= heap[states[i]].min_temperature

\* A line analyze_file folds whole: it has all 9 fields.
Folded(line) == Len(strtok(line)) = 9

\* C13: when the report is computed every accumulator of the table has
\* num_records >= 1 and at least one line of its code was folded whole, so
\* no average divides by a count of zero or describes no record.
C13_CountedAtReport ==
    pc = "done" =>
        /\ report = print_report(states, heap)
        /\ \A i \in OccupiedSlots :
              /\ heap[states[i]].num_records >= 1
              /\ \E k \in 1 .. Len(seen) :
                    Folded(seen[k]) /\ CodeOf(seen[k]) = heap[states[i]].code

\* C14: a step never empties or refills an occupied slot (its accumulator
\* stays, with its code), and the line of a code that has no accumulator
\* yet gets a new accumulator in a slot that was empty, however many codes
\* the table already holds.
C14_TableOnlyGrows ==
    [][/\ \A i \in OccupiedSlots :
             /\ states'[i] = states[i]
             /\ heap'[states[i]].code = heap[states[i]].code
       /\ (/\ pc = "read"
           /\ li <= Len(files[fi].lines)
           /\ Folded(files[fi].lines[li])
           /\ \A i \in OccupiedSlots :
                 heap[states[i]].code # CodeOf(files[fi].lines[li]))
          => \E j \in Slots \ OccupiedSlots :
                /\ states'[j] # NULL
                /\ heap'[states'[j]].code = CodeOf(files[fi].lines[li])]_vars

\* The position in ls of the first line of code c (0 when there is none).
FirstOf(ls, c) ==
    IF \E k \in 1 .. Len(ls) : CodeOf(ls[k]) = c
    THEN CHOOSE k \in 1 .. Len(ls) :
            CodeOf(ls[k]) = c /\ \A j \in 1 .. (k - 1) : CodeOf(ls[j]) # c
    ELSE 0

\* C15: between records the slots are in the order in which their codes
\* first appeared among the lines processed: of two occupied slots the lower
\* one holds the code whose first line came first.
C15_InsertionOrder ==
    (BetweenRecords /\ \A k \in 1 .. Len(seen) : Folded(seen[k])) =>
        \A i, j \in OccupiedSlots :
            i < j => /\ FirstOf(seen, heap[states[i]].code) > 0
                     /\ FirstOf(seen, heap[states[i]].code)
                           < FirstOf(seen, heap[states[j]].code)

\* The step folds the first record of a code: a well-formed line whose
\* code has no accumulator, after which the run is still alive.
FirstFold ==
    /\ pc = "read"
    /\ li <= Len(files[fi].lines)
    /\ WellFormed(files[fi].lines[li])
    /\ \A i \in OccupiedSlots : heap[states[i]].code # CodeOf(files[fi].lines[li])
    /\ pc' = "read"

\* The line's temperature in Fahrenheit and its seconds, as analyze_file
\* reads them.
ReadingOf(line) == Fahrenheit(atof(line[9]))

StampOf(line) == TimestampSeconds(atol(line[2]))

\* The accumulator the step created.
Created == heap'[Len(heap')]

\* C16: right after the first record of a code is folded, max_temperature
\* and min_temperature of its accumulator are that record's temperature (as
\* a double) and max_temp_date and min_temp_date that record's seconds,
\* whatever temperature the record carries.
C16_FirstRecordSetsExtrema ==
    [][FirstFold =>
         /\ Len(heap') = Len(heap) + 1
         /\ Created.code = CodeOf(files[fi].lines[li])
         /\ Created.max_temperature = Narrow(ReadingOf(files[fi].lines[li]))
         /\ Created.min_temperature = Narrow(ReadingOf(files[fi].lines[li]))
         /\ Created.max_temp_date = <<StampOf(files[fi].lines[li])>>
         /\ Created.min_temp_date = <<StampOf(files[fi].lines[li])>>]_vars

\* The temperature is a number strictly between the two initial extrema.
Plausible(t) == t # NaN /\ -1000 * 1000 < t /\ t < 1000 * 1000

\* C16 amended: the same, for a first record whose temperature is strictly
\* between -1000 F and 1000 F.
C16_FirstPlausibleRecordSetsExtrema ==
    [][(FirstFold /\ Plausible(ReadingOf(files[fi].lines[li]))) =>
         /\ Len(heap') = Len(heap) + 1
         /\ Created.code = CodeOf(files[fi].lines[li])
         /\ Created.max_temperature = Narrow(ReadingOf(files[fi].lines[li]))
         /\ Created.min_temperature = Narrow(ReadingOf(files[fi].lines[li]))
         /\ Created.max_temp_date = <<StampOf(files[fi].lines[li])>>
         /\ Created.min_temp_date = <<StampOf(files[fi].lines[li])>>]_vars

\* A second code was first seen on a later line of the file, with a
\* plausible temperature, and its extrema are set.
C16_Witness ==
    /\ pc = "read"
    /\ li = 3
    /\ Len(heap) = 2
    /\ Len(seen) = 2
    /\ WellFormed(seen[2])
    /\ Plausible(ReadingOf(seen[2]))
    /\ heap[2].code = CodeOf(seen[2])
    /\ heap[2].num_records = 1
    /\ heap[2].max_temp_date = <<StampOf(seen[2])>>
    /\ heap[2].min_temp_date = <<StampOf(seen[2])>>

\* The fields analyze_file converts to numbers.
NumericFields == {2, 4, 5, 6, 7, 9}

\* The line with 0 in place of every numeric field that is not a number.
Zeroed(line) ==
    [k \in 1 .. Len(line) |->
        IF k \in NumericFields /\ ~line[k].num THEN Num(0) ELSE line[k]]

\* The step is the iteration on a line of 9 fields one of whose numeric
\* fields is not a number.
UnparseableFold ==
    /\ pc = "read"
    /\ li <= Len(files[fi].lines)
    /\ Folded(files[fi].lines[li])
    /\ \E k \in NumericFields : ~files[fi].lines[li][k].num

\* C17: the iteration on a line of 9 fields with a numeric field that is not
\* a number goes on to the next line, counts the line once for its code and
\* leaves the accumulators as the same line with 0 in that field leaves
\* them.
C17_UnparseableIsZero ==
    [][UnparseableFold =>
         /\ pc' = "read"
         /\ li' = li + 1
         /\ \E i \in {j \in Slots : states'[j] # NULL} :
               /\ heap'[states'[i]].code = CodeOf(files[fi].lines[li])
               /\ heap'[states'[i]].num_records =
                     1 + (IF i \in OccupiedSlots THEN heap[states[i]].num_records ELSE 0)
         /\ heap' = LoopBody(heap, states, new_state, Zeroed(files[fi].lines[li]),
                             [null |-> "zero", wild |-> "lost", oob |-> "null"]).heap]_vars

\* C18: no line and no unopenable path ends the run before the report (the
\* loops of main and analyze_file are bounded by the finite input, so a run
\* that is not ended reaches the report), and at the report every line of
\* every openable file has been consumed.
C18_RunsToReport ==
    /\ pc # "crashed"
    /\ pc = "done" => seen = Concat(Openable(files))

\* The accumulators the step allocated or changed.
Mutated == {p \in 1 .. Len(heap') : p > Len(heap) \/ heap'[p] # heap[p]}

\* C19: after well-formed lines only, the iteration on a well-formed line of
\* code c that runs to its end allocates or changes exactly one accumulator,
\* and it is one of code c: every accumulator of another code is left as it
\* was.
C19_FoldFrame ==
    [][(/\ pc = "read"
        /\ li <= Len(files[fi].lines)
        /\ AllWellFormed(seen)
        /\ WellFormed(files[fi].lines[li])
        /\ pc' = "read")
       => /\ Cardinality(Mutated) = 1
          /\ \A p \in Mutated : heap'[p].code = CodeOf(files[fi].lines[li])]_vars

\* The step is an iteration that makes the updates through new_state: its
\* line, like the lines before it, has all 9 fields, and the iteration
\* passed num_records++.
UpdatesThroughPointer ==
    /\ pc = "read"
    /\ li <= Len(files[fi].lines)
    /\ \A k \in 1 .. Len(seen) : Folded(seen[k])
    /\ Folded(files[fi].lines[li])
    /\ heap' # heap

\* C20: whenever an iteration updates sums, counts or extrema through
\* new_state, new_state was assigned in the current call of analyze_file and
\* points at an accumulator of the table.
C20_PointerAssigned ==
    [][UpdatesThroughPointer =>
         /\ assigned'
         /\ \E i \in Slots : states'[i] # NULL /\ states'[i] = new_state']_vars

====
